---- MODULE Spec2Model ----
(***************************************************************************)
(* streamr: the composition algebra of src/streamr/base.py and the         *)
(* sequence-backed producer and consumer of src/streamr/lists.py.          *)
(*                                                                         *)
(* Spec    : composing parts (compose_stream_parts, >>, <<), the           *)
(*           environment operations of a part and StreamProcess.run.       *)
(* SpecRun : invocations of ListC.consume, each pulling from its own       *)
(*           ListP.produce generator, interleaved.                         *)
(***************************************************************************)
EXTENDS Integers, Sequences, FiniteSets, TLC

(***************************************************************************)
(* Bounds.                                                                 *)
(***************************************************************************)
\* longest list / largest limit carried by a ListP / ListC operand of Spec
MaxPartLen == 1
\* longest list of the ListP of SpecRun
MaxLen == 3
\* values of a list are 1..MaxVal
MaxVal == 2
\* largest limit of the ListC of SpecRun
MaxAmount == 4
\* a run may be started this many times
MaxStarts == 2

\* ListC.__init__: amount = None
NoAmount == -1

(***************************************************************************)
(* Values.                                                                 *)
(***************************************************************************)
\* type tags; only their equality matters
Types == {"int", "str"}

\* a type query that raises: the class's own method ("implement me!") or
\* a method the class does not have
NotImplementedError == "NotImplementedError"
AttributeError == "AttributeError"
IsExc(v) == v \in {NotImplementedError, AttributeError}

NoPart == [cls |-> "None"]
NoMsg == [fmt |-> "", l |-> <<>>, r |-> <<>>]
NoValue == [kind |-> "unset"]
None == [kind |-> "None"]
EmptyList == [kind |-> "list", items |-> <<>>]

RECURSIVE SeqsUpTo(_, _)
SeqsUpTo(S, n) ==
  IF n = 0 THEN {<<>>}
  ELSE LET shorter == SeqsUpTo(S, n - 1)
       IN shorter \cup {Append(s, x) : s \in {t \in shorter : Len(t) = n - 1}, x \in S}

(***************************************************************************)
(* Parts.  An instance of one of the three role classes either supplies    *)
(* its type queries itself (a tag) or leaves the class's method, which     *)
(* raises NotImplementedError.                                             *)
(***************************************************************************)
Producer == {[cls |-> "Producer", tout |-> t] : t \in Types \cup {NotImplementedError}}

Consumer == {[cls |-> "Consumer", tin |-> t] : t \in Types \cup {NotImplementedError}}

Pipe ==
  {[cls |-> "Pipe", tin |-> a, tout |-> b] : a \in Types, b \in Types}
    \cup {[cls |-> "Pipe", tin |-> NotImplementedError, tout |-> NotImplementedError]}

StreamProcess == [cls |-> "StreamProcess"]

\* ListP.__init__(type, list)
ListP(type, list) == [cls |-> "ListP", type |-> type, list |-> list, length |-> Len(list)]

\* ListC.__init__(type, amount = None)
ListC(type, amount) == [cls |-> "ListC", type |-> type, amount |-> amount]

\* the parts a program can construct without composing
Leaves ==
  Producer \cup Consumer \cup Pipe \cup {StreamProcess}
    \cup {ListP(t, [i \in 1..n |-> i]) : t \in Types, n \in 0..MaxPartLen}
    \cup {ListC(t, a) : t \in Types, a \in {NoAmount} \cup 1..MaxPartLen}

\* type(x): the exact class of an object
TypeOf(p) == p.cls

\* isinstance(p, StreamPart): the classes that inherit >> and <<
IsStreamPart(p) == p.cls # "StreamProcess"

RECURSIVE type_out(_)
type_out(p) ==
  CASE p.cls = "ListP" -> p.type
    [] p.cls \in {"Producer", "Pipe"} -> p.tout
    [] p.cls \in {"AppendPipe", "FusePipe"} -> type_out(p.right)
    [] OTHER -> AttributeError

RECURSIVE type_in(_)
type_in(p) ==
  CASE p.cls = "ListC" -> p.type
    [] p.cls \in {"Consumer", "Pipe"} -> p.tin
    [] p.cls \in {"PrependPipe", "FusePipe"} -> type_in(p.left)
    [] OTHER -> AttributeError

\* __str__ by method resolution order: Pipe.__str__ for Pipe and FusePipe,
\* Producer.__str__ for the producers, Consumer.__str__ for the consumers,
\* object's own for a StreamProcess.  The text is <<in, out>>; exc is the
\* exception a type query raised while rendering.
Rendered(tin, tout) == [exc |-> "none", text |-> <<tin, tout>>]
RenderFails(e) == [exc |-> e, text |-> <<>>]

Str(p) ==
  CASE p.cls \in {"Pipe", "FusePipe"} ->
         IF IsExc(type_in(p)) THEN RenderFails(type_in(p))
         ELSE IF IsExc(type_out(p)) THEN RenderFails(type_out(p))
         ELSE Rendered(type_in(p), type_out(p))
    [] p.cls \in {"Producer", "ListP", "AppendPipe"} ->
         IF IsExc(type_out(p)) THEN RenderFails(type_out(p)) ELSE Rendered("()", type_out(p))
    [] p.cls \in {"Consumer", "ListC", "PrependPipe"} ->
         IF IsExc(type_in(p)) THEN RenderFails(type_in(p)) ELSE Rendered(type_in(p), "()")
    [] OTHER -> Rendered("object", p.cls)

(***************************************************************************)
(* Outcomes of a call: a returned part or value, or an exception.          *)
(***************************************************************************)
Return(part) == [exc |-> "none", msg |-> NoMsg, result |-> part, value |-> NoValue]
ReturnValue(v) == [exc |-> "none", msg |-> NoMsg, result |-> NoPart, value |-> v]
Raise(e) == [exc |-> e, msg |-> NoMsg, result |-> NoPart, value |-> NoValue]

\* raise TypeError("Can't compose %s and %s" % (left, right)): the operands
\* are rendered left to right, and a rendering that raises propagates
CantComposeSwapped(left, right) ==
  IF Str(left).exc # "none" THEN Raise(Str(left).exc)
  ELSE IF Str(right).exc # "none" THEN Raise(Str(right).exc)
  ELSE [exc |-> "TypeError",
        msg |-> [fmt |-> "Can't compose %s and %s", l |-> Str(right).text, r |-> Str(left).text],
        result |-> NoPart, value |-> NoValue]

CantCompose(left, right) ==
  IF Str(left).exc # "none" THEN Raise(Str(left).exc)
  ELSE IF Str(right).exc # "none" THEN Raise(Str(right).exc)
  ELSE [exc |-> "TypeError",
        msg |-> [fmt |-> "Can't compose %s and %s", l |-> Str(left).text, r |-> Str(right).text],
        result |-> NoPart, value |-> NoValue]

\* ComposedStreamPart.__init__, reached through the constructor of cls
ComposedStreamPart(cls, left, right) ==
  IF IsExc(type_out(left)) THEN Raise(type_out(left))
  ELSE IF IsExc(type_in(right)) THEN Raise(type_in(right))
  ELSE IF type_out(left) # type_in(right) THEN CantCompose(left, right)
  ELSE Return([cls |-> cls, left |-> left, right |-> right])

\* the name FusePipes is bound nowhere in the module (the class is FusePipe)
FusePipes(left, right) == Raise("NameError")

PrependPipe(left, right) == ComposedStreamPart("PrependPipe", left, right)

AppendPipe(left, right) == ComposedStreamPart("AppendPipe", left, right)

compose_stream_parts(left, right) ==
  LET t_left == TypeOf(left)
      t_right == TypeOf(right)
  IN IF t_left = "Pipe" /\ t_right = "Pipe" THEN FusePipes(left, right)
     ELSE IF t_left = "Pipe" /\ t_right = "Consumer" THEN PrependPipe(left, right)
     ELSE IF t_left = "Producer" /\ t_right = "Pipe" THEN AppendPipe(left, right)
     ELSE IF t_left = "Producer" /\ t_right = "Consumer"
       THEN [Raise(NotImplementedError) EXCEPT
               !.msg = [fmt |-> "compose_stream_parts: implement fusion", l |-> <<>>, r |-> <<>>]]
     ELSE CantCompose(left, right)

\* a call and its outcome
Call(op, left, right, outcome) ==
  [op |-> op, left |-> left, right |-> right, exc |-> outcome.exc, msg |-> outcome.msg,
   result |-> outcome.result, value |-> outcome.value]

\* the interpreter's answer to an operator neither operand defines
UnsupportedOperand(left, right) ==
  [exc |-> "TypeError",
   msg |-> [fmt |-> "unsupported operand type(s)", l |-> <<"object", left.cls>>,
            r |-> <<"object", right.cls>>],
   result |-> NoPart, value |-> NoValue]

\* StreamPart.__rshift__: self >> other
rshift(self, other) ==
  IF IsStreamPart(self) THEN Call("compose", self, other, compose_stream_parts(self, other))
  ELSE Call("rshift", self, other, UnsupportedOperand(self, other))

\* StreamPart.__lshift__: self << other
lshift(self, other) ==
  IF IsStreamPart(self) THEN Call("compose", other, self, compose_stream_parts(other, self))
  ELSE Call("lshift", self, other, UnsupportedOperand(self, other))

\* StreamPart.get_initial_state / shutdown_state: every part inherits the
\* base method, no class overrides it
get_initial_state(p) ==
  IF IsStreamPart(p) THEN Raise(NotImplementedError) ELSE Raise(AttributeError)

shutdown_state(p) ==
  IF IsStreamPart(p) THEN Raise(NotImplementedError) ELSE Raise(AttributeError)

\* get_initial_env / shutdown_env exist on ListP and ListC only
get_initial_env(p) ==
  CASE p.cls = "ListP" -> ReturnValue(None)
    [] p.cls = "ListC" -> ReturnValue(EmptyList)
    [] OTHER -> Raise(AttributeError)

shutdown_env(p) ==
  IF p.cls \in {"ListP", "ListC"} THEN ReturnValue(None) ELSE Raise(AttributeError)

\* StreamProcess.run: pass
run(p) ==
  IF p.cls = "StreamProcess" THEN ReturnValue(None) ELSE Raise(AttributeError)

\* the parts a composition of two leaves returns
Composites ==
  {compose_stream_parts(left, right).result : left \in Leaves, right \in Leaves} \ {NoPart}

\* the parts a program can hold: what it constructed and what it composed
Operands == Leaves \cup Composites

(***************************************************************************)
(* State.                                                                  *)
(***************************************************************************)
VARIABLES
  last,    \* Spec: the last call made and its outcome
  P,       \* SpecRun: the ListP of the pipeline
  C,       \* SpecRun: the ListC of the pipeline
  rpc,     \* SpecRun: where each run is: "idle", "await", "fold", "done"
  gen,     \* SpecRun: per generator made by P.produce, how many values it yielded
  value,   \* SpecRun: per run, consume's local `value` (0: none)
  l,       \* SpecRun: per run, consume's local `l`
  pulls,   \* SpecRun: per run, the calls of await() made
  ret,     \* SpecRun: per run, what consume returned
  starts   \* SpecRun: per run, how often it was started

vars == <<last, P, C, rpc, gen, value, l, pulls, ret, starts>>
runVars == <<P, C, rpc, gen, value, l, pulls, ret, starts>>

\* the two runs of the one pipeline definition
Runs == {1, 2}

NoCall == Call("none", NoPart, NoPart, Raise("none"))

RunsIdle ==
  /\ rpc = [r \in Runs |-> "idle"]
  /\ gen = [r \in Runs |-> 0]
  /\ value = [r \in Runs |-> 0]
  /\ l = [r \in Runs |-> <<>>]
  /\ pulls = [r \in Runs |-> 0]
  /\ ret = [r \in Runs |-> <<>>]
  /\ starts = [r \in Runs |-> 0]

(***************************************************************************)
(* Spec: calls on parts.                                                   *)
(***************************************************************************)
Init ==
  /\ last = NoCall
  /\ P = ListP("int", <<>>)
  /\ C = ListC("int", NoAmount)
  /\ RunsIdle

\* compose_stream_parts(left, right) called directly
Compose ==
  \E left \in Operands, right \in Operands :
    /\ last' = Call("compose", left, right, compose_stream_parts(left, right))
    /\ UNCHANGED runVars

\* left >> right
RShift ==
  \E left \in Operands, right \in Operands :
    /\ last' = rshift(left, right)
    /\ UNCHANGED runVars

\* right << left
LShift ==
  \E left \in Operands, right \in Operands :
    /\ last' = lshift(right, left)
    /\ UNCHANGED runVars

GetInitialState ==
  \E p \in Operands :
    /\ last' = Call("get_initial_state", p, NoPart, get_initial_state(p))
    /\ UNCHANGED runVars

ShutdownState ==
  \E p \in Operands :
    /\ last' = Call("shutdown_state", p, NoPart, shutdown_state(p))
    /\ UNCHANGED runVars

GetInitialEnv ==
  \E p \in Operands :
    /\ last' = Call("get_initial_env", p, NoPart, get_initial_env(p))
    /\ UNCHANGED runVars

ShutdownEnv ==
  \E p \in Operands :
    /\ last' = Call("shutdown_env", p, NoPart, shutdown_env(p))
    /\ UNCHANGED runVars

Run ==
  \E p \in Operands :
    /\ last' = Call("run", p, NoPart, run(p))
    /\ UNCHANGED runVars

Next ==
  \/ Compose
  \/ RShift
  \/ LShift
  \/ GetInitialState
  \/ ShutdownState
  \/ GetInitialEnv
  \/ ShutdownEnv
  \/ Run

Spec == Init /\ [][Next]_vars

(***************************************************************************)
(* SpecRun: ListC.consume(await, env) with await the next() of a generator *)
(* of ListP.produce(env).  One pull and one fold are one step each.        *)
(***************************************************************************)
\* ListP.produce: each call makes a generator of its own
GenOfShared(r) == 1

GenOf(r) == r

InitRun ==
  /\ last = NoCall
  /\ P \in {ListP("int", s) : s \in SeqsUpTo(1..MaxVal, MaxLen)}
  /\ C \in {ListC("int", a) : a \in {NoAmount} \cup 0..MaxAmount}
  /\ RunsIdle

\* consume is entered: l = [], and the generator it pulls from is made
StartRun(r) ==
  /\ rpc[r] \in {"idle", "done"}
  /\ starts[r] < MaxStarts
  /\ starts' = [starts EXCEPT ![r] = @ + 1]
  /\ gen' = [gen EXCEPT ![GenOf(r)] = 0]
  /\ l' = [l EXCEPT ![r] = <<>>]
  /\ pulls' = [pulls EXCEPT ![r] = 0]
  /\ ret' = [ret EXCEPT ![r] = <<>>]
  /\ value' = [value EXCEPT ![r] = 0]
  /\ rpc' = [rpc EXCEPT ![r] = "await"]
  /\ UNCHANGED <<last, P, C>>

\* value = await(): the generator yields its next value, or raises
\* StopIteration and consume returns l
Await(r) ==
  /\ rpc[r] = "await"
  /\ pulls' = [pulls EXCEPT ![r] = @ + 1]
  /\ IF gen[GenOf(r)] < Len(P.list)
       THEN /\ value' = [value EXCEPT ![r] = P.list[gen[GenOf(r)] + 1]]
            /\ gen' = [gen EXCEPT ![GenOf(r)] = @ + 1]
            /\ rpc' = [rpc EXCEPT ![r] = "fold"]
            /\ UNCHANGED ret
       ELSE /\ ret' = [ret EXCEPT ![r] = l[r]]
            /\ rpc' = [rpc EXCEPT ![r] = "done"]
            /\ UNCHANGED <<value, gen>>
  /\ UNCHANGED <<last, P, C, l, starts>>

\* l.append(value); return l when the amount is reached
Fold(r) ==
  /\ rpc[r] = "fold"
  /\ l' = [l EXCEPT ![r] = Append(@, value[r])]
  /\ IF C.amount # NoAmount /\ Len(l'[r]) = C.amount
       THEN /\ ret' = [ret EXCEPT ![r] = l'[r]]
            /\ rpc' = [rpc EXCEPT ![r] = "done"]
       ELSE /\ rpc' = [rpc EXCEPT ![r] = "await"]
            /\ UNCHANGED ret
  /\ UNCHANGED <<last, P, C, gen, value, pulls, starts>>

NextRun == \E r \in Runs : StartRun(r) \/ Await(r) \/ Fold(r)

SpecRun == InitRun /\ [][NextRun]_vars

(***************************************************************************)
(* The specification's vocabulary: roles by capability, the decision       *)
(* table of section 4.1, the renderings of section 4.1.                    *)
(***************************************************************************)
Role(p) ==
  IF p.cls = "StreamProcess" THEN "StreamProcess"
  ELSE IF ~IsExc(type_in(p)) /\ ~IsExc(type_out(p)) THEN "Pipe"
  ELSE IF ~IsExc(type_out(p)) THEN "Producer"
  ELSE IF ~IsExc(type_in(p)) THEN "Consumer"
  ELSE "none"

Table(leftRole, rightRole) ==
  CASE leftRole = "Producer" /\ rightRole = "Pipe" -> "Producer"
    [] leftRole = "Producer" /\ rightRole = "Consumer" -> "StreamProcess"
    [] leftRole = "Pipe" /\ rightRole = "Pipe" -> "Pipe"
    [] leftRole = "Pipe" /\ rightRole = "Consumer" -> "Consumer"
    [] OTHER -> "error"

IsPart(p) == p # NoPart /\ Role(p) # "none"

Rendering(p) ==
  CASE Role(p) = "Producer" -> <<"()", type_out(p)>>
    [] Role(p) = "Consumer" -> <<type_in(p), "()">>
    [] Role(p) = "Pipe" -> <<type_in(p), type_out(p)>>
    [] OTHER -> <<"object", p.cls>>

\* the last call composed two parts whose roles the table accepts
InTable ==
  /\ last.op = "compose"
  /\ IsPart(last.left)
  /\ IsPart(last.right)
  /\ Table(Role(last.left), Role(last.right)) # "error"

Compatible == InTable /\ type_out(last.left) = type_in(last.right)

NamesBothOperands ==
  /\ last.exc = "TypeError"
  /\ last.msg.l = Rendering(last.left)
  /\ last.msg.r = Rendering(last.right)

ListValue(s) == [kind |-> "list", items |-> s]

(***************************************************************************)
(* Claims.                                                                 *)
(***************************************************************************)

\* C1: composing a Producer-role part with a Consumer-role part of the same
\* boundary type does not raise and returns a StreamProcess that can be run.
C1_ProducerConsumerYieldsProcess ==
  (Compatible /\ Role(last.left) = "Producer" /\ Role(last.right) = "Consumer")
    => /\ last.exc = "none"
       /\ last.result.cls = "StreamProcess"
       /\ run(last.result).exc = "none"

\* C2: run() of the process built from ListP(T, s) >> ListC(T), no limit,
\* returns exactly s.
C2_ListPipelineReturnsList ==
  (/\ last.op = "compose"
   /\ last.left.cls = "ListP"
   /\ last.right.cls = "ListC"
   /\ last.left.type = last.right.type
   /\ last.right.amount = NoAmount)
    => /\ last.exc = "none"
       /\ run(last.result) = ReturnValue(ListValue(last.left.list))

\* C4: for (Producer, Pipe), (Pipe, Pipe) and (Pipe, Consumer) with equal
\* boundary types compose returns a part of the table's role whose type_in
\* is the left's and whose type_out is the right's.
C4_TableEntriesYieldTypedParts ==
  (Compatible /\ Table(Role(last.left), Role(last.right)) # "StreamProcess")
    => /\ last.exc = "none"
       /\ Role(last.result) = Table(Role(last.left), Role(last.right))
       /\ Role(last.result) \in {"Pipe", "Consumer"}
            => type_in(last.result) = type_in(last.left)
       /\ Role(last.result) \in {"Pipe", "Producer"}
            => type_out(last.result) = type_out(last.right)

\* C5: operands are classified by the capabilities they implement, so a
\* pair the table accepts with equal boundary types is never turned down
\* as not composable, whatever the operands' classes.
C5_ClassifiedByCapability == Compatible => last.exc # "TypeError"

\* C6: composing two parts (each implementing the type queries of its
\* role) whose role pair is outside the table raises TypeError with a
\* message holding both operands' renderings, and returns no part.
C6_OutsideTableIsTypeError ==
  (/\ last.op = "compose"
   /\ IsPart(last.left)
   /\ IsPart(last.right)
   /\ Table(Role(last.left), Role(last.right)) = "error")
    => /\ NamesBothOperands
       /\ last.msg.fmt = "Can't compose %s and %s"
       /\ last.result = NoPart

\* C6 witness: a consumer built by a composition meets a pipe
C6_Witness ==
  /\ last.op = "compose"
  /\ last.left.cls = "PrependPipe"
  /\ last.right.cls = "Pipe"
  /\ IsPart(last.right)
  /\ last.exc = "TypeError"
  /\ last.msg.l # last.msg.r

\* C7: inside the table, unequal boundary types raise TypeError naming both
\* operands, and no part is returned.
C7_MismatchIsTypeError ==
  (InTable /\ type_out(last.left) # type_in(last.right))
    => /\ NamesBothOperands
       /\ last.result = NoPart

\* C8: a composed part creates and shuts down its environment by
\* delegating to both children, so doing so on a composed part succeeds.
C8_ComposedPartDelegatesEnvironment ==
  (/\ last.op \in {"get_initial_state", "shutdown_state", "get_initial_env", "shutdown_env"}
   /\ last.left \in Composites)
    => last.exc = "none"

\* C10: when the table accepts both groupings of a, b, c, then (a >> b) >> c
\* and a >> (b >> c) both succeed and yield parts of the same role and types.
C10_Associative ==
  (/\ last.op = "compose"
   /\ last.left \in Composites
   /\ IsPart(last.right)
   /\ type_out(last.left.right) = type_in(last.right)
   /\ Table(Table(Role(last.left.left), Role(last.left.right)), Role(last.right)) # "error"
   /\ Table(Role(last.left.left), Table(Role(last.left.right), Role(last.right))) # "error")
    => LET inner == compose_stream_parts(last.left.right, last.right)
           outer == compose_stream_parts(last.left.left, inner.result)
       IN /\ last.exc = "none"
          /\ inner.exc = "none"
          /\ outer.exc = "none"
          /\ Role(outer.result) = Role(last.result)
          /\ type_in(outer.result) = type_in(last.result)
          /\ type_out(outer.result) = type_out(last.result)

\* C3: with a limit K, 0 <= K < N, over an upstream of N values consume
\* calls await exactly K times and returns the first K values.
C3_LimitPullsExactlyK ==
  \A r \in Runs :
    (rpc[r] = "done" /\ C.amount # NoAmount /\ C.amount < Len(P.list))
      => /\ pulls[r] = C.amount
         /\ ret[r] = SubSeq(P.list, 1, C.amount)

\* what one consume over one generator returns when nothing else runs
RECURSIVE Alone(_, _, _)
Alone(list, amount, acc) ==
  IF Len(acc) = Len(list) THEN acc
  ELSE LET more == Append(acc, list[Len(acc) + 1])
       IN IF amount # NoAmount /\ Len(more) = amount THEN more
          ELSE Alone(list, amount, more)

\* a run sees only its own position and accumulator
RunIsolated(r) ==
  /\ rpc[r] \in {"await", "fold"} =>
       /\ l[r] = SubSeq(P.list, 1, Len(l[r]))
       /\ pulls[r] = gen[r]
  /\ rpc[r] = "await" => gen[r] = Len(l[r])
  /\ rpc[r] = "fold" => gen[r] = Len(l[r]) + 1 /\ value[r] = P.list[gen[r]]
  /\ rpc[r] = "done" => ret[r] = Alone(P.list, C.amount, <<>>)

====
